---- MODULE Spec2Model ----
(***************************************************************************)
(* Sequential Variable Neighborhood Descent solver for the breakout-room   *)
(* problem (solver.py): create_initial_mapping followed by seqVND over the *)
(* Move1, Swap and Move2 neighbourhoods.                                    *)
(*                                                                         *)
(* Numbers are naturals.  A Python comparison  x > s / d  is computed by   *)
(* cross-multiplication (gt_quotient); d = 0 is the ZeroDivisionError that *)
(* Python raises, modelled by the *_raises operators and the terminal      *)
(* control state "ZeroDivisionError".                                      *)
(* A room's occupant list is modelled as a set: the lists built by the     *)
(* code are only measured with len() while they are duplicate-free, and    *)
(* the evaluator works on the node set of the list.                        *)
(* set(D.values()) is iterated in ascending order, which is CPython's      *)
(* order for the small non-negative room numbers used here.                *)
(***************************************************************************)
EXTENDS Integers, Sequences, FiniteSets, TLC

VARIABLES G, s, D, k, room_counter, edges_left, curr_happiness_rating,
          current_neighborhood, pc, last_step

vars == <<G, s, D, k, room_counter, edges_left, curr_happiness_rating,
          current_neighborhood, pc, last_step>>

(***************************************************************************)
(* Bounds of the model.                                                    *)
(***************************************************************************)
MaxStudents == 3
MaxHappiness == 2
MaxStress == 2
MaxBudget == 4

(***************************************************************************)
(* Graph model: nodes 0..n-1, edges as ordered pairs a < b, with the       *)
(* happiness and stress attribute of every edge.                           *)
(***************************************************************************)
Pairs(n) == {e \in (0 .. n - 1) \X (0 .. n - 1) : e[1] < e[2]}

GraphsOn(n, hs, ss) ==
    UNION {{[nodes |-> 0 .. n - 1, edges |-> E, happiness |-> h, stress |-> t] :
                h \in [E -> hs], t \in [E -> ss]} : E \in SUBSET Pairs(n)}

\* Every weighted graph on at most MaxStudents students.
WeightedGraphs ==
    UNION {GraphsOn(n, 0 .. MaxHappiness, 0 .. MaxStress) : n \in 1 .. MaxStudents}

\* Every graph on MaxStudents + 1 students whose edges all have happiness 1
\* and stress 1.
UnitGraphs == GraphsOn(MaxStudents + 1, {1}, {1})

\* The four-student scenario: edge (0,1) happiness 5 stress 1, edge (2,3)
\* happiness 3 stress 1, budget 10.
Scenario ==
    [graph |-> [nodes |-> 0 .. 3, edges |-> {<<0, 1>>, <<2, 3>>},
                happiness |-> (<<0, 1>> :> 5 @@ <<2, 3>> :> 3),
                stress |-> (<<0, 1>> :> 1 @@ <<2, 3>> :> 1)],
     budget |-> 10]

Range(f) == {f[x] : x \in DOMAIN f}

RECURSIVE SumOver(_, _)
SumOver(S, w) ==
    IF S = {} THEN 0
    ELSE LET x == CHOOSE y \in S : TRUE IN w[x] + SumOver(S \ {x}, w)

\* Edges of g with both endpoints among the students of arr (G.subgraph(arr)).
subgraph_edges(arr, g) == {e \in g.edges : e[1] \in arr /\ e[2] \in arr}

calculate_stress_for_room(arr, g) == SumOver(subgraph_edges(arr, g), g.stress)

calculate_happiness_for_room(arr, g) == SumOver(subgraph_edges(arr, g), g.happiness)

\* room -> students currently in that room
room_to_students(d) == [r \in Range(d) |-> {m \in DOMAIN d : d[m] = r}]

calculate_happiness(d, g) ==
    LET room_to_s == room_to_students(d)
        room_happiness == [r \in DOMAIN room_to_s |->
                              calculate_happiness_for_room(room_to_s[r], g)]
    IN SumOver(DOMAIN room_to_s, room_happiness)

\* x > s / d for d # 0 (d = 0 raises, see the *_raises operators)
gt_quotient(x, budget, d) ==
    IF d > 0 THEN x * d > budget
    ELSE IF d < 0 THEN x * d < budget
    ELSE FALSE

\* x <= s / d for d > 0
le_quotient(x, budget, d) == x * d <= budget

RECURSIVE SortedSeq(_)
SortedSeq(S) ==
    IF S = {} THEN << >>
    ELSE LET m == CHOOSE x \in S : \A y \in S : x <= y
         IN <<m>> \o SortedSeq(S \ {m})

(***************************************************************************)
(* The three changes of a partition.                                       *)
(***************************************************************************)
\* D[student2], D[student1] = D[student2], D[student1]: the right-hand side
\* is evaluated first, then assigned left to right.
swap(student1, student2, d) ==
    LET rhs == <<d[student2], d[student1]>>
    IN [[d EXCEPT ![student2] = rhs[1]] EXCEPT ![student1] = rhs[2]]

\* move that puts the student into the room numbered after the given one.
move_to_next_room(student, room, d) == [d EXCEPT ![student] = room + 1]

move(student, room, d) == [d EXCEPT ![student] = room]

move2(student1, student2, room1, room2, d) ==
    [[d EXCEPT ![student1] = room1] EXCEPT ![student2] = room2]

(***************************************************************************)
(* Feasibility checks.  Each check has a boolean result and a companion    *)
(* operator telling when the same code raises ZeroDivisionError.            *)
(***************************************************************************)
is_valid_swap(student1, student2, d, rooms_to_s, kk, g, sb) ==
    LET student_one_room == d[student1]
        student_two_room == d[student2]
        student_one_moved == (rooms_to_s[student_two_room] \ {student2}) \cup {student1}
        student_two_moved == (rooms_to_s[student_one_room] \ {student1}) \cup {student2}
    IN IF student_one_room = student_two_room THEN FALSE
       ELSE IF Cardinality(rooms_to_s[student_one_room]) = 0
               /\ Cardinality(rooms_to_s[student_two_room]) = 0 THEN FALSE
       ELSE IF gt_quotient(calculate_stress_for_room(student_one_moved, g), sb, kk)
            THEN FALSE
       ELSE IF gt_quotient(calculate_stress_for_room(student_two_moved, g), sb, kk)
            THEN FALSE
       ELSE TRUE

is_valid_swap_raises(student1, student2, d, rooms_to_s, kk) ==
    /\ d[student1] # d[student2]
    /\ ~ (Cardinality(rooms_to_s[d[student1]]) = 0
          /\ Cardinality(rooms_to_s[d[student2]]) = 0)
    /\ kk = 0

\* is_valid_move with the ceiling of a vacated origin room, s / (k - 1), used
\* whether or not the student is alone.
is_valid_move_vacated_ceiling(student, room, d, rooms_to_s, kk, g, sb) ==
    LET student_room == d[student]
        student_moved == rooms_to_s[room] \cup {student}
    IN IF student_room = room THEN FALSE
       ELSE ~ gt_quotient(calculate_stress_for_room(student_moved, g), sb, kk - 1)

is_valid_move(student, room, d, rooms_to_s, kk, g, sb) ==
    LET student_room == d[student]
        alone == Cardinality(rooms_to_s[student_room]) = 1
        student_moved == rooms_to_s[room] \cup {student}
    IN IF student_room = room THEN FALSE
       ELSE IF alone
            THEN ~ gt_quotient(calculate_stress_for_room(student_moved, g), sb, kk - 1)
            ELSE ~ gt_quotient(calculate_stress_for_room(student_moved, g), sb, kk)

is_valid_move_raises(student, room, d, rooms_to_s, kk) ==
    /\ d[student] # room
    /\ IF Cardinality(rooms_to_s[d[student]]) = 1 THEN kk - 1 = 0 ELSE kk = 0

is_valid_move2(student1, student2, room1, room2, d, rooms_to_s, kk, g, sb) ==
    LET student1_room == d[student1]
        student2_room == d[student2]
        same_room == room1 = room2
        students_moved == rooms_to_s[room1] \cup {student1, student2}
        student1_moved == rooms_to_s[room1] \cup {student1}
        student2_moved == rooms_to_s[room2] \cup {student2}
    IN IF student1_room = room1 THEN FALSE
       ELSE IF student2_room = room2 THEN FALSE
       ELSE IF Cardinality(rooms_to_s[student1_room]) # 1 THEN FALSE
       ELSE IF Cardinality(rooms_to_s[student2_room]) # 1 THEN FALSE
       ELSE IF same_room
            THEN ~ gt_quotient(calculate_stress_for_room(students_moved, g), sb, kk - 2)
       ELSE IF gt_quotient(calculate_stress_for_room(student1_moved, g), sb, kk - 2)
            THEN FALSE
       ELSE IF gt_quotient(calculate_stress_for_room(student2_moved, g), sb, kk - 2)
            THEN FALSE
       ELSE TRUE

is_valid_move2_raises(student1, student2, room1, room2, d, rooms_to_s, kk) ==
    /\ d[student1] # room1
    /\ d[student2] # room2
    /\ Cardinality(rooms_to_s[d[student1]]) = 1
    /\ Cardinality(rooms_to_s[d[student2]]) = 1
    /\ kk - 2 = 0

(***************************************************************************)
(* Neighbourhood generators: the valid candidates, in the order of the     *)
(* nested loops.                                                           *)
(***************************************************************************)
swap_neighborhood(g, sb, d, kk) ==
    LET num_students == Cardinality(g.nodes)
        room_to_s == room_to_students(d)
        loops == [i \in 1 .. num_students * num_students |->
                     <<(i - 1) \div num_students, (i - 1) % num_students>>]
    IN SelectSeq(loops, LAMBDA c : is_valid_swap(c[1], c[2], d, room_to_s, kk, g, sb))

swap_neighborhood_raises(g, d, kk) ==
    \E i \in g.nodes, j \in g.nodes :
        is_valid_swap_raises(i, j, d, room_to_students(d), kk)

move_neighborhood(g, sb, d, kk) ==
    LET num_students == Cardinality(g.nodes)
        rooms_in_use == SortedSeq(Range(d))
        nr == Len(rooms_in_use)
        room_to_s == room_to_students(d)
        loops == [i \in 1 .. num_students * nr |->
                     <<(i - 1) \div nr, rooms_in_use[((i - 1) % nr) + 1]>>]
    IN SelectSeq(loops, LAMBDA c : is_valid_move(c[1], c[2], d, room_to_s, kk, g, sb))

move_neighborhood_raises(g, d, kk) ==
    \E student \in g.nodes, room \in Range(d) :
        is_valid_move_raises(student, room, d, room_to_students(d), kk)

move2_neighborhood(g, sb, d, kk) ==
    LET num_students == Cardinality(g.nodes)
        rooms_in_use == SortedSeq(Range(d))
        nr == Len(rooms_in_use)
        room_to_s == room_to_students(d)
        loops == [i \in 1 .. num_students * num_students * nr * nr |->
                     <<<<(i - 1) \div (num_students * nr * nr),
                         rooms_in_use[(((i - 1) \div nr) % nr) + 1]>>,
                       <<((i - 1) \div (nr * nr)) % num_students,
                         rooms_in_use[((i - 1) % nr) + 1]>>>>]
    IN SelectSeq(loops, LAMBDA c : is_valid_move2(c[1][1], c[2][1], c[1][2], c[2][2],
                                                  d, room_to_s, kk, g, sb))

move2_neighborhood_raises(g, d, kk) ==
    \E student1 \in g.nodes, student2 \in g.nodes, room1 \in Range(d), room2 \in Range(d) :
        is_valid_move2_raises(student1, student2, room1, room2, d,
                              room_to_students(d), kk)

(***************************************************************************)
(* Local search drivers.  The loop state is the scratch copy best_change,  *)
(* the running best_happiness and the best candidate so far (<< >> while   *)
(* there is none).  *_body is one iteration of the for loop; *_loop runs   *)
(* the iterations lo..hi in order from the loop state st (as the first     *)
(* half followed by the second half, so that the evaluation does not nest  *)
(* once per candidate; the CASE guard, which every iteration maintains,    *)
(* makes the first half's state a value before the second half starts).    *)
(***************************************************************************)
no_best == [best_change |-> << >>, best_happiness |-> 0, best_move |-> << >>]

\* local_search_move_body with >= in place of >: a later candidate of equal
\* happiness replaces the running best.
local_search_move_body_last_wins(d, g, change, st) ==
    LET tried == move(change[1], change[2], st.best_change)
        change_happiness == calculate_happiness(tried, g)
        better == change_happiness >= st.best_happiness
    IN [st EXCEPT !.best_change = move(change[1], d[change[1]], tried),
                  !.best_happiness = IF better THEN change_happiness ELSE @,
                  !.best_move = IF better THEN change ELSE @]

local_search_move_body(d, g, change, st) ==
    LET tried == move(change[1], change[2], st.best_change)
        change_happiness == calculate_happiness(tried, g)
        better == change_happiness > st.best_happiness
    IN [st EXCEPT !.best_change = move(change[1], d[change[1]], tried),
                  !.best_happiness = IF better THEN change_happiness ELSE @,
                  !.best_move = IF better THEN change ELSE @]

RECURSIVE local_search_move_loop(_, _, _, _, _, _)
local_search_move_loop(d, g, potential_changes, st, lo, hi) ==
    IF lo > hi THEN st
    ELSE IF lo = hi THEN local_search_move_body(d, g, potential_changes[lo], st)
    ELSE LET mid == (lo + hi) \div 2
             first == local_search_move_loop(d, g, potential_changes, st, lo, mid)
         IN CASE first.best_happiness >= st.best_happiness ->
                 local_search_move_loop(d, g, potential_changes, first, mid + 1, hi)

local_search_move(d, g, potential_changes) ==
    LET st == local_search_move_loop(d, g, potential_changes,
                                     [no_best EXCEPT !.best_change = d],
                                     1, Len(potential_changes))
        best_move == st.best_move
    IN IF Len(best_move) > 0
       THEN <<move(best_move[1], best_move[2], st.best_change), st.best_happiness>>
       ELSE <<st.best_change, st.best_happiness>>

local_search_swap_body(d, g, change, st) ==
    LET student1 == change[1]
        student2 == change[2]
        tried == swap(student1, student2, st.best_change)
        change_happiness == calculate_happiness(tried, g)
        better == change_happiness > st.best_happiness
    IN [st EXCEPT !.best_change = swap(student1, student2, tried),
                  !.best_happiness = IF better THEN change_happiness ELSE @,
                  !.best_move = IF better THEN change ELSE @]

RECURSIVE local_search_swap_loop(_, _, _, _, _, _)
local_search_swap_loop(d, g, potential_changes, st, lo, hi) ==
    IF lo > hi THEN st
    ELSE IF lo = hi THEN local_search_swap_body(d, g, potential_changes[lo], st)
    ELSE LET mid == (lo + hi) \div 2
             first == local_search_swap_loop(d, g, potential_changes, st, lo, mid)
         IN CASE first.best_happiness >= st.best_happiness ->
                 local_search_swap_loop(d, g, potential_changes, first, mid + 1, hi)

local_search_swap(d, g, potential_changes) ==
    LET st == local_search_swap_loop(d, g, potential_changes,
                                     [no_best EXCEPT !.best_change = d],
                                     1, Len(potential_changes))
        best_swap == st.best_move
    IN IF Len(best_swap) > 0
       THEN <<swap(best_swap[1], best_swap[2], st.best_change), st.best_happiness>>
       ELSE <<st.best_change, st.best_happiness>>

\* local_search_move2_body without the second call of move2 that puts the two
\* students back.
local_search_move2_body_without_revert(d, g, change, st) ==
    LET tried == move2(change[1][1], change[2][1], change[1][2], change[2][2],
                       st.best_change)
        change_happiness == calculate_happiness(tried, g)
        better == change_happiness > st.best_happiness
    IN [st EXCEPT !.best_change = tried,
                  !.best_happiness = IF better THEN change_happiness ELSE @,
                  !.best_move = IF better THEN change ELSE @]

local_search_move2_body(d, g, change, st) ==
    LET tried == move2(change[1][1], change[2][1], change[1][2], change[2][2],
                       st.best_change)
        change_happiness == calculate_happiness(tried, g)
        better == change_happiness > st.best_happiness
    IN [st EXCEPT !.best_change = move2(change[1][1], change[2][1],
                                        d[change[1][1]], d[change[2][1]], tried),
                  !.best_happiness = IF better THEN change_happiness ELSE @,
                  !.best_move = IF better THEN change ELSE @]

RECURSIVE local_search_move2_loop(_, _, _, _, _, _)
local_search_move2_loop(d, g, potential_changes, st, lo, hi) ==
    IF lo > hi THEN st
    ELSE IF lo = hi THEN local_search_move2_body(d, g, potential_changes[lo], st)
    ELSE LET mid == (lo + hi) \div 2
             first == local_search_move2_loop(d, g, potential_changes, st, lo, mid)
         IN CASE first.best_happiness >= st.best_happiness ->
                 local_search_move2_loop(d, g, potential_changes, first, mid + 1, hi)

\* After the loop the code applies the loop variable change, which is the
\* last candidate of potential_changes, not best_move.
local_search_move2(d, g, potential_changes) ==
    LET st == local_search_move2_loop(d, g, potential_changes,
                                      [no_best EXCEPT !.best_change = d],
                                      1, Len(potential_changes))
        best_move == st.best_move
        change == potential_changes[Len(potential_changes)]
    IN IF Len(best_move) > 0
       THEN <<move2(change[1][1], change[2][1], change[1][2], change[2][2],
                    st.best_change), st.best_happiness>>
       ELSE <<st.best_change, st.best_happiness>>

(***************************************************************************)
(* solve: create_initial_mapping, then seqVND.                             *)
(***************************************************************************)
total_neighborhoods == 3

no_step == [neighborhood |-> 0, accepted |-> FALSE, D |-> << >>, k |-> 0,
            happiness |-> 0, best_happiness |-> 0]

Init ==
    /\ \/ G \in WeightedGraphs \cup UnitGraphs /\ s \in 0 .. MaxBudget
       \/ G = Scenario.graph /\ s = Scenario.budget
    /\ D = << >>
    /\ k = Cardinality(G.nodes)
    /\ room_counter = 0
    /\ edges_left = G.edges
    /\ curr_happiness_rating = 0
    /\ current_neighborhood = 0
    /\ pc = "create_initial_mapping"
    /\ last_step = no_step

\* PlacePair without the test of the edge's stress against s / num_students.
PlacePair_any_stress ==
    /\ pc = "create_initial_mapping"
    /\ edges_left # {}
    /\ \E edge \in edges_left :
          /\ \A other \in edges_left : G.stress[edge] <= G.stress[other]
          /\ edges_left' = edges_left \ {edge}
          /\ IF /\ edge[1] \notin DOMAIN D
                /\ edge[2] \notin DOMAIN D
             THEN /\ D' = [x \in DOMAIN D \cup {edge[1], edge[2]} |->
                              IF x \in {edge[1], edge[2]} THEN room_counter ELSE D[x]]
                  /\ room_counter' = room_counter + 1
             ELSE UNCHANGED <<D, room_counter>>
    /\ UNCHANGED <<G, s, k, curr_happiness_rating, current_neighborhood, pc, last_step>>

\* One iteration of the loop over edges_by_stress: the next edge is one of
\* least stress among those not yet visited (the order of edges of equal
\* stress is the order in which the graph lists them).
PlacePair ==
    /\ pc = "create_initial_mapping"
    /\ edges_left # {}
    /\ \E edge \in edges_left :
          /\ \A other \in edges_left : G.stress[edge] <= G.stress[other]
          /\ edges_left' = edges_left \ {edge}
          /\ IF /\ edge[1] \notin DOMAIN D
                /\ edge[2] \notin DOMAIN D
                /\ le_quotient(G.stress[edge], s, Cardinality(G.nodes))
             THEN /\ D' = [x \in DOMAIN D \cup {edge[1], edge[2]} |->
                              IF x \in {edge[1], edge[2]} THEN room_counter ELSE D[x]]
                  /\ room_counter' = room_counter + 1
             ELSE UNCHANGED <<D, room_counter>>
    /\ UNCHANGED <<G, s, k, curr_happiness_rating, current_neighborhood, pc, last_step>>

\* place_remaining with the loop starting at student 1 instead of student 0.
place_remaining_from_one(d, counter, num_students) ==
    LET unplaced == SortedSeq((1 .. num_students - 1) \ DOMAIN d)
    IN [x \in DOMAIN d \cup (1 .. num_students - 1) |->
           IF x \in DOMAIN d THEN d[x]
           ELSE counter + (CHOOSE i \in 1 .. Len(unplaced) : unplaced[i] = x) - 1]

\* Students not yet placed get a room of their own, in ascending order.
place_remaining(d, counter, num_students) ==
    LET unplaced == SortedSeq((0 .. num_students - 1) \ DOMAIN d)
    IN [x \in DOMAIN d \cup (0 .. num_students - 1) |->
           IF x \in DOMAIN d THEN d[x]
           ELSE counter + (CHOOSE i \in 1 .. Len(unplaced) : unplaced[i] = x) - 1]

\* The second loop of create_initial_mapping and its return to solve.
PlaceRemaining ==
    /\ pc = "create_initial_mapping"
    /\ edges_left = {}
    /\ D' = place_remaining(D, room_counter, Cardinality(G.nodes))
    /\ room_counter' = room_counter + Cardinality(G.nodes \ DOMAIN D)
    /\ pc' = "solve"
    /\ UNCHANGED <<G, s, k, edges_left, curr_happiness_rating, current_neighborhood,
                   last_step>>

\* solve calls seqVND, which stores the current happiness and starts with
\* the first neighbourhood.
EnterSeqVND ==
    /\ pc = "solve"
    /\ curr_happiness_rating' = calculate_happiness(D, G)
    /\ current_neighborhood' = 1
    /\ pc' = "seqVND"
    /\ UNCHANGED <<G, s, D, k, room_counter, edges_left, last_step>>

\* Descend without the restart: after an accepted step seqVND goes on to the
\* next neighbourhood.
Descend_without_restart(result) ==
    LET best_neighborhood_change == result[1]
        best_neighborhood_happiness == result[2]
        accept == best_neighborhood_happiness > curr_happiness_rating
    IN /\ last_step' = [neighborhood |-> current_neighborhood, accepted |-> accept,
                        D |-> D, k |-> k, happiness |-> curr_happiness_rating,
                        best_happiness |-> best_neighborhood_happiness]
       /\ IF accept
          THEN /\ D' = best_neighborhood_change
               /\ k' = Cardinality(Range(best_neighborhood_change))
               /\ curr_happiness_rating' = calculate_happiness(best_neighborhood_change, G)
               /\ current_neighborhood' = current_neighborhood + 1
          ELSE /\ current_neighborhood' = current_neighborhood + 1
               /\ UNCHANGED <<D, k, curr_happiness_rating>>
       /\ UNCHANGED <<G, s, room_counter, edges_left, pc>>

\* The end of one iteration of the while loop: accept the driver's result
\* <<best_neighborhood_change, best_neighborhood_happiness>> or go on to the
\* next neighbourhood.
Descend(result) ==
    LET best_neighborhood_change == result[1]
        best_neighborhood_happiness == result[2]
        accept == best_neighborhood_happiness > curr_happiness_rating
    IN /\ last_step' = [neighborhood |-> current_neighborhood, accepted |-> accept,
                        D |-> D, k |-> k, happiness |-> curr_happiness_rating,
                        best_happiness |-> best_neighborhood_happiness]
       /\ IF accept
          THEN /\ D' = best_neighborhood_change
               /\ k' = Cardinality(Range(best_neighborhood_change))
               /\ curr_happiness_rating' = calculate_happiness(best_neighborhood_change, G)
               /\ current_neighborhood' = 1
          ELSE /\ current_neighborhood' = current_neighborhood + 1
               /\ UNCHANGED <<D, k, curr_happiness_rating>>
       /\ UNCHANGED <<G, s, room_counter, edges_left, pc>>

\* A feasibility check divides by zero: the exception leaves solve.
Raise ==
    /\ pc' = "ZeroDivisionError"
    /\ last_step' = [no_step EXCEPT !.neighborhood = current_neighborhood,
                                    !.D = D, !.k = k, !.happiness = curr_happiness_rating]
    /\ UNCHANGED <<G, s, D, k, room_counter, edges_left, curr_happiness_rating,
                   current_neighborhood>>

Move1Step ==
    /\ pc = "seqVND"
    /\ current_neighborhood <= total_neighborhoods
    /\ current_neighborhood = 1
    /\ IF move_neighborhood_raises(G, D, k) THEN Raise
       ELSE Descend(local_search_move(D, G, move_neighborhood(G, s, D, k)))

SwapStep ==
    /\ pc = "seqVND"
    /\ current_neighborhood <= total_neighborhoods
    /\ current_neighborhood = 2
    /\ IF swap_neighborhood_raises(G, D, k) THEN Raise
       ELSE Descend(local_search_swap(D, G, swap_neighborhood(G, s, D, k)))

Move2Step ==
    /\ pc = "seqVND"
    /\ current_neighborhood <= total_neighborhoods
    /\ current_neighborhood \notin {1, 2}
    /\ IF move2_neighborhood_raises(G, D, k) THEN Raise
       ELSE Descend(local_search_move2(D, G, move2_neighborhood(G, s, D, k)))

\* The while loop ends; seqVND and solve return D, k.
Return ==
    /\ pc = "seqVND"
    /\ ~ (current_neighborhood <= total_neighborhoods)
    /\ pc' = "returned"
    /\ UNCHANGED <<G, s, D, k, room_counter, edges_left, curr_happiness_rating,
                   current_neighborhood, last_step>>

Next ==
    \/ PlacePair
    \/ PlaceRemaining
    \/ EnterSeqVND
    \/ Move1Step
    \/ SwapStep
    \/ Move2Step
    \/ Return

Spec == Init /\ [][Next]_vars

(***************************************************************************)
(* Properties.                                                             *)
(***************************************************************************)
occupants(d, room) == {m \in DOMAIN d : d[m] = room}

\* Every room of d is within s / (number of rooms in use in d).
within_budget(d) ==
    \A room \in Range(d) :
        le_quotient(calculate_stress_for_room(occupants(d, room), G), s,
                    Cardinality(Range(d)))

running == pc = "seqVND" /\ current_neighborhood <= total_neighborhoods

\* C1: the partition returned by solve keeps every room's stress within
\* s / k, k being the number of distinct rooms in use in it.
C1_ReturnedWithinBudget == pc = "returned" => within_budget(D)

\* C2: on every accepted transition of seqVND the total happiness of the
\* accepted partition is strictly greater than that of the partition it
\* replaces.
C2_AcceptStrictlyImproves ==
    [][(pc = "seqVND" /\ pc' = "seqVND" /\ current_neighborhood' = 1)
          => calculate_happiness(D', G) > calculate_happiness(D, G)]_vars

\* C3: solve terminates by reaching Done: a run of solve that has stopped
\* has left the while loop of seqVND (current_neighborhood > 3) and returned.
C3_StopsOnlyAtDone ==
    pc \notin {"create_initial_mapping", "solve", "seqVND"}
        => (pc = "returned" /\ current_neighborhood > total_neighborhoods)

\* C4: whenever seqVND generates a neighbourhood, and when solve returns,
\* k is the number of distinct rooms in use in D.
C4_KIsRoomCount == (running \/ pc = "returned") => k = Cardinality(Range(D))

\* C5: no feasibility check faults on a zero ceiling divisor: solve never
\* ends in a ZeroDivisionError.
C5_NoDivisionFault == pc # "ZeroDivisionError"

\* C6: every partition held by the Controller, and every partition returned
\* by a local search driver, assigns every student of the graph to a room:
\* its key set is the set of students.
C6_CompleteAssignment ==
    /\ pc # "create_initial_mapping" => DOMAIN D = G.nodes
    /\ (running /\ ~ move_neighborhood_raises(G, D, k))
          => DOMAIN local_search_move(D, G, move_neighborhood(G, s, D, k))[1] = G.nodes
    /\ (running /\ ~ swap_neighborhood_raises(G, D, k))
          => DOMAIN local_search_swap(D, G, swap_neighborhood(G, s, D, k))[1] = G.nodes
    /\ (running /\ ~ move2_neighborhood_raises(G, D, k))
          => DOMAIN local_search_move2(D, G, move2_neighborhood(G, s, D, k))[1] = G.nodes

\* A move has been accepted on a graph of at least three students, so the
\* Controller holds a partition produced by a driver.
C6_Witness ==
    /\ pc = "seqVND"
    /\ last_step.accepted
    /\ D # last_step.D
    /\ Cardinality(G.nodes) >= 3
    /\ DOMAIN D = G.nodes

\* C7: on a graph of two students joined by an edge of stress greater than
\* s, solve returns normally with the students in different rooms and k = 2.
C7_TwoStudentsApart ==
    (/\ G.nodes = {0, 1}
     /\ <<0, 1>> \in G.edges
     /\ G.stress[<<0, 1>>] > s
     /\ pc \in {"returned", "ZeroDivisionError"})
        => (pc = "returned" /\ D[0] # D[1] /\ k = 2)

\* C8: when the Controller is at Move2 (Move1 and Swap gave no improvement
\* on the current partition) and the Move2 neighbourhood holds a candidate
\* for two students whose total happiness is strictly greater than the
\* current one, the step accepts a partition of strictly greater happiness.
C8_Move2AppliesImprovement ==
    [][(/\ running
        /\ current_neighborhood = 3
        /\ ~ move2_neighborhood_raises(G, D, k)
        /\ LET potential_changes == move2_neighborhood(G, s, D, k)
           IN \E i \in 1 .. Len(potential_changes) :
                 LET change == potential_changes[i]
                 IN /\ change[1][1] # change[2][1]
                    /\ calculate_happiness(move2(change[1][1], change[2][1],
                                                 change[1][2], change[2][2], D), G)
                          > curr_happiness_rating)
          => (last_step'.accepted
              /\ calculate_happiness(D', G) > calculate_happiness(D, G))]_vars

\* C9: when a driver finds a best candidate, the partition it returns is
\* its input with exactly that candidate applied, and the best_happiness it
\* returns is the total happiness of the returned partition.
C9_DriverReturnsBest ==
    running =>
        /\ ~ move_neighborhood_raises(G, D, k) =>
              LET potential_changes == move_neighborhood(G, s, D, k)
                  best == local_search_move_loop(D, G, potential_changes,
                              [no_best EXCEPT !.best_change = D],
                              1, Len(potential_changes)).best_move
                  result == local_search_move(D, G, potential_changes)
              IN Len(best) > 0 =>
                    /\ result[1] = move(best[1], best[2], D)
                    /\ result[2] = calculate_happiness(result[1], G)
        /\ ~ swap_neighborhood_raises(G, D, k) =>
              LET potential_changes == swap_neighborhood(G, s, D, k)
                  best == local_search_swap_loop(D, G, potential_changes,
                              [no_best EXCEPT !.best_change = D],
                              1, Len(potential_changes)).best_move
                  result == local_search_swap(D, G, potential_changes)
              IN Len(best) > 0 =>
                    /\ result[1] = swap(best[1], best[2], D)
                    /\ result[2] = calculate_happiness(result[1], G)
        /\ ~ move2_neighborhood_raises(G, D, k) =>
              LET potential_changes == move2_neighborhood(G, s, D, k)
                  best == local_search_move2_loop(D, G, potential_changes,
                              [no_best EXCEPT !.best_change = D],
                              1, Len(potential_changes)).best_move
                  result == local_search_move2(D, G, potential_changes)
              IN Len(best) > 0 =>
                    /\ result[1] = move2(best[1][1], best[2][1], best[1][2], best[2][2], D)
                    /\ result[2] = calculate_happiness(result[1], G)

\* C10: swap exchanges the rooms of the two students, leaves every other
\* student where they are, and applied twice restores the partition.
C10_SwapExchangesRooms ==
    running =>
        \A student1 \in G.nodes, student2 \in G.nodes :
            LET swapped == swap(student1, student2, D)
            IN /\ swapped[student1] = D[student2]
               /\ swapped[student2] = D[student1]
               /\ \A other \in G.nodes \ {student1, student2} : swapped[other] = D[other]
               /\ swap(student1, student2, swapped) = D

\* C11: when seqVND generates the Move2 neighbourhood on a partition that is
\* within budget, every candidate emitted by move2_neighborhood, applied with
\* move2, gives a partition whose every room is within s / k', k' being the
\* number of distinct rooms in use after the change.
C11_Move2CandidatesWithinBudget ==
    (/\ running
     /\ current_neighborhood = 3
     /\ within_budget(D)
     /\ ~ move2_neighborhood_raises(G, D, k))
        => LET potential_changes == move2_neighborhood(G, s, D, k)
           IN \A i \in 1 .. Len(potential_changes) :
                 LET change == potential_changes[i]
                 IN within_budget(move2(change[1][1], change[2][1],
                                        change[1][2], change[2][2], D))

\* C12: every candidate that is_valid_move2 accepts in the Move2
\* neighbourhood has two distinct students, targets no room that the other
\* student vacates, and applied with move2 leaves exactly two rooms fewer in
\* use.
C12_Move2VacatesTwoRooms ==
    (/\ running
     /\ current_neighborhood = 3
     /\ ~ move2_neighborhood_raises(G, D, k))
        => LET potential_changes == move2_neighborhood(G, s, D, k)
           IN \A i \in 1 .. Len(potential_changes) :
                 LET student1 == potential_changes[i][1][1]
                     room1 == potential_changes[i][1][2]
                     student2 == potential_changes[i][2][1]
                     room2 == potential_changes[i][2][2]
                 IN /\ student1 # student2
                    /\ room1 # D[student2]
                    /\ room2 # D[student1]
                    /\ Cardinality(Range(move2(student1, student2, room1, room2, D)))
                          = Cardinality(Range(D)) - 2

\* C13: when seqVND holds a partition that is within budget, every candidate
\* (student, room) emitted by move_neighborhood, applied with move, gives a
\* partition whose every room is within s / k', k' being the number of
\* distinct rooms in use after the change.
C13_MoveCandidatesWithinBudget ==
    (/\ running
     /\ within_budget(D)
     /\ ~ move_neighborhood_raises(G, D, k))
        => LET potential_changes == move_neighborhood(G, s, D, k)
           IN \A i \in 1 .. Len(potential_changes) :
                 within_budget(move(potential_changes[i][1], potential_changes[i][2], D))

\* The Move1 neighbourhood of a partition within budget holds a candidate
\* that vacates the student's room and one that does not, and the second brings
\* stress into its destination room.
C13_Witness ==
    /\ running
    /\ current_neighborhood = 1
    /\ within_budget(D)
    /\ ~ move_neighborhood_raises(G, D, k)
    /\ LET potential_changes == move_neighborhood(G, s, D, k)
       IN /\ \E i \in 1 .. Len(potential_changes) :
                Cardinality(occupants(D, D[potential_changes[i][1]])) = 1
          /\ \E i \in 1 .. Len(potential_changes) :
                /\ Cardinality(occupants(D, D[potential_changes[i][1]])) > 1
                /\ calculate_stress_for_room(
                       occupants(move(potential_changes[i][1], potential_changes[i][2], D),
                                 potential_changes[i][2]), G) > 0

\* C14: is_valid_swap is false for two students who share a room and for two
\* students who are each alone in their room, so swap_neighborhood emits no
\* swap between two singleton rooms.
C14_NoSwapOfSingletons ==
    (/\ running
     /\ current_neighborhood = 2
     /\ ~ swap_neighborhood_raises(G, D, k))
        => LET room_to_s == room_to_students(D)
               potential_changes == swap_neighborhood(G, s, D, k)
           IN /\ \A student1 \in G.nodes, student2 \in G.nodes :
                    (\/ D[student1] = D[student2]
                     \/ /\ Cardinality(room_to_s[D[student1]]) = 1
                        /\ Cardinality(room_to_s[D[student2]]) = 1)
                       => ~ is_valid_swap(student1, student2, D, room_to_s, k, G, s)
              /\ \A i \in 1 .. Len(potential_changes) :
                    ~ (/\ Cardinality(room_to_s[D[potential_changes[i][1]]]) = 1
                       /\ Cardinality(room_to_s[D[potential_changes[i][2]]]) = 1)

\* C15: the partition that seqVND returns is a local optimum for the
\* relocation of one student: no student can be moved to another room in use
\* so that every room stays within s / k' (k' the number of rooms in use after
\* the move) and the total happiness becomes strictly greater.
C15_ReturnedIsMove1Optimum ==
    pc = "returned" =>
        \A student \in G.nodes, room \in Range(D) :
            ~ (/\ room # D[student]
               /\ within_budget(move(student, room, D))
               /\ calculate_happiness(move(student, room, D), G)
                     > calculate_happiness(D, G))

\* C16: seqVND follows the fixed priority order.  It starts at Move1; a step
\* is accepted exactly when the driver's best happiness exceeds the current
\* happiness, and then Move1 is examined next; a step that is not accepted
\* leaves D and k alone and passes from Move1 to Swap, from Swap to Move2 and
\* from Move2 to Done; whenever seqVND is past Move1 the previous step
\* examined the neighbourhood just before on the same partition without
\* acceptance; and seqVND returns only from Done, directly after such a Move2
\* step.
C16_PriorityOrder ==
    [][/\ (pc = "solve" /\ pc' = "seqVND") => current_neighborhood' = 1
       /\ (running /\ pc' = "seqVND") =>
             /\ last_step'.neighborhood = current_neighborhood
             /\ last_step'.accepted
                   <=> last_step'.best_happiness > curr_happiness_rating
             /\ IF last_step'.accepted
                THEN current_neighborhood' = 1
                ELSE /\ current_neighborhood' = current_neighborhood + 1
                     /\ D' = D
                     /\ k' = k
       /\ (pc' = "seqVND" /\ current_neighborhood' > 1) =>
             /\ last_step'.neighborhood = current_neighborhood' - 1
             /\ ~ last_step'.accepted
             /\ last_step'.D = D'
             /\ last_step'.k = k'
       /\ pc' = "returned" =>
             /\ current_neighborhood' = total_neighborhoods + 1
             /\ last_step'.neighborhood = total_neighborhoods
             /\ ~ last_step'.accepted
             /\ last_step'.D = D'
             /\ D' = D]_vars

\* seqVND has returned from Done after at least one accepted step (k is no
\* longer the builder's num_students) and a last Move2 step without
\* acceptance.
C16_Witness ==
    /\ pc = "returned"
    /\ k # Cardinality(G.nodes)
    /\ last_step.neighborhood = total_neighborhoods
    /\ ~ last_step.accepted
    /\ current_neighborhood = total_neighborhoods + 1

\* C17: create_initial_mapping returns the greedy pairing.  Rooms are the
\* fresh numbers 0 .. room_counter - 1 and hold one or two students; two
\* students share a room only if they are joined by an edge of stress
\* <= s / N; every edge of stress <= s / N that pairs no room has an endpoint
\* paired by an edge of no greater stress (so no such edge joins two singleton
\* rooms); and every room is within s / (rooms in use).
C17_GreedyPairing ==
    pc = "solve" =>
        LET N == Cardinality(G.nodes)
            paired(e) == D[e[1]] = D[e[2]]
        IN /\ DOMAIN D = G.nodes
           /\ Range(D) = 0 .. room_counter - 1
           /\ \A room \in Range(D) : Cardinality(occupants(D, room)) \in {1, 2}
           /\ \A a \in G.nodes, b \in G.nodes :
                 (a < b /\ D[a] = D[b])
                    => (<<a, b>> \in G.edges /\ le_quotient(G.stress[<<a, b>>], s, N))
           /\ \A e \in G.edges :
                 (le_quotient(G.stress[e], s, N) /\ ~ paired(e))
                    => \E f \in G.edges :
                          /\ paired(f)
                          /\ {f[1], f[2]} \cap {e[1], e[2]} # {}
                          /\ G.stress[f] <= G.stress[e]
           /\ \A e \in G.edges :
                 le_quotient(G.stress[e], s, N)
                    => ~ (/\ Cardinality(occupants(D, D[e[1]])) = 1
                          /\ Cardinality(occupants(D, D[e[2]])) = 1)
           /\ within_budget(D)

\* The builder has returned a partition with a pair and a singleton room,
\* having passed over one edge for its stress and another because an endpoint
\* was already placed.
C17_Witness ==
    /\ pc = "solve"
    /\ \E room \in Range(D) : Cardinality(occupants(D, room)) = 2
    /\ \E room \in Range(D) : Cardinality(occupants(D, room)) = 1
    /\ \E e \in G.edges : ~ le_quotient(G.stress[e], s, Cardinality(G.nodes))
    /\ \E e \in G.edges :
          /\ le_quotient(G.stress[e], s, Cardinality(G.nodes))
          /\ D[e[1]] # D[e[2]]

\* C18: in each local search driver the candidate chosen as best is the
\* first candidate, in the neighbourhood's enumeration order, whose total
\* happiness is the highest of the neighbourhood (and positive, the running
\* best starting at 0): a later candidate of equal happiness does not replace
\* it.
C18_FirstBestWins ==
    running =>
        /\ ~ move_neighborhood_raises(G, D, k) =>
              LET potential_changes == move_neighborhood(G, s, D, k)
                  n == Len(potential_changes)
                  st == local_search_move_loop(D, G, potential_changes,
                            [no_best EXCEPT !.best_change = D], 1, n)
                  h == [i \in 1 .. n |->
                           calculate_happiness(move(potential_changes[i][1],
                                                    potential_changes[i][2], D), G)]
              IN \A i \in 1 .. n :
                    (/\ h[i] > 0
                     /\ \A j \in 1 .. n : h[j] <= h[i] /\ (j < i => h[j] < h[i]))
                       => (st.best_move = potential_changes[i] /\ st.best_happiness = h[i])
        /\ ~ swap_neighborhood_raises(G, D, k) =>
              LET potential_changes == swap_neighborhood(G, s, D, k)
                  n == Len(potential_changes)
                  st == local_search_swap_loop(D, G, potential_changes,
                            [no_best EXCEPT !.best_change = D], 1, n)
                  h == [i \in 1 .. n |->
                           calculate_happiness(swap(potential_changes[i][1],
                                                    potential_changes[i][2], D), G)]
              IN \A i \in 1 .. n :
                    (/\ h[i] > 0
                     /\ \A j \in 1 .. n : h[j] <= h[i] /\ (j < i => h[j] < h[i]))
                       => (st.best_move = potential_changes[i] /\ st.best_happiness = h[i])
        /\ ~ move2_neighborhood_raises(G, D, k) =>
              LET potential_changes == move2_neighborhood(G, s, D, k)
                  n == Len(potential_changes)
                  st == local_search_move2_loop(D, G, potential_changes,
                            [no_best EXCEPT !.best_change = D], 1, n)
                  h == [i \in 1 .. n |->
                           calculate_happiness(move2(potential_changes[i][1][1],
                                                     potential_changes[i][2][1],
                                                     potential_changes[i][1][2],
                                                     potential_changes[i][2][2], D), G)]
              IN \A i \in 1 .. n :
                    (/\ h[i] > 0
                     /\ \A j \in 1 .. n : h[j] <= h[i] /\ (j < i => h[j] < h[i]))
                       => (st.best_move = potential_changes[i] /\ st.best_happiness = h[i])

\* The Move1 neighbourhood being examined holds two candidates that give
\* different partitions of the same, highest, positive happiness, and the
\* step takes the partition of the first of them.
C18_Witness ==
    /\ running
    /\ current_neighborhood = 1
    /\ ~ move_neighborhood_raises(G, D, k)
    /\ LET potential_changes == move_neighborhood(G, s, D, k)
           n == Len(potential_changes)
           h == [i \in 1 .. n |->
                    calculate_happiness(move(potential_changes[i][1],
                                             potential_changes[i][2], D), G)]
       IN \E i \in 1 .. n, j \in 1 .. n :
             /\ i < j
             /\ h[i] = h[j]
             /\ h[i] > 0
             /\ \A m \in 1 .. n : h[m] <= h[i] /\ (m < i => h[m] < h[i])
             /\ move(potential_changes[i][1], potential_changes[i][2], D)
                   # move(potential_changes[j][1], potential_changes[j][2], D)
             /\ local_search_move(D, G, potential_changes)[1]
                   = move(potential_changes[i][1], potential_changes[i][2], D)

\* C19: the local search drivers work on a scratch copy that is equal to
\* the input partition D again after every candidate: one iteration started
\* with the scratch copy equal to D ends with it equal to D, for every
\* candidate of the neighbourhood, and so does the whole loop.
C19_ScratchReverted ==
    running =>
        LET st0 == [no_best EXCEPT !.best_change = D]
        IN /\ ~ move_neighborhood_raises(G, D, k) =>
                 LET potential_changes == move_neighborhood(G, s, D, k)
                     n == Len(potential_changes)
                 IN /\ \A i \in 1 .. n :
                          local_search_move_body(D, G, potential_changes[i],
                                                 st0).best_change = D
                    /\ local_search_move_loop(D, G, potential_changes,
                                              st0, 1, n).best_change = D
           /\ ~ swap_neighborhood_raises(G, D, k) =>
                 LET potential_changes == swap_neighborhood(G, s, D, k)
                     n == Len(potential_changes)
                 IN /\ \A i \in 1 .. n :
                          local_search_swap_body(D, G, potential_changes[i],
                                                 st0).best_change = D
                    /\ local_search_swap_loop(D, G, potential_changes,
                                              st0, 1, n).best_change = D
           /\ ~ move2_neighborhood_raises(G, D, k) =>
                 LET potential_changes == move2_neighborhood(G, s, D, k)
                     n == Len(potential_changes)
                 IN /\ \A i \in 1 .. n :
                          local_search_move2_body(D, G, potential_changes[i],
                                                  st0).best_change = D
                    /\ local_search_move2_loop(D, G, potential_changes,
                                               st0, 1, n).best_change = D

\* A Move2 step has examined a neighbourhood of several candidates, two of
\* which change the partition differently, without acceptance: the
\* Controller still holds the partition it passed to the driver.
C19_Witness ==
    /\ pc = "seqVND"
    /\ last_step.neighborhood = 3
    /\ ~ last_step.accepted
    /\ D = last_step.D
    /\ ~ move2_neighborhood_raises(G, D, k)
    /\ LET potential_changes == move2_neighborhood(G, s, D, k)
           n == Len(potential_changes)
           applied(i) == move2(potential_changes[i][1][1], potential_changes[i][2][1],
                               potential_changes[i][1][2], potential_changes[i][2][2], D)
       IN /\ \E i \in 1 .. n, j \in 1 .. n :
                applied(i) # D /\ applied(j) # D /\ applied(i) # applied(j)
          /\ local_search_move2_loop(D, G, potential_changes,
                                     [no_best EXCEPT !.best_change = D],
                                     1, n).best_change = D

\* C20: seqVND never creates a room.  Every step of seqVND leaves the set of
\* room numbers in use a subset of the set in use before it, so the number of
\* rooms in use never grows and never exceeds the number of rooms made by
\* create_initial_mapping (room_counter).
C20_NoRoomCreated ==
    [][(pc = "seqVND" /\ pc' \in {"seqVND", "returned"}) =>
          /\ Range(D') \subseteq Range(D)
          /\ Cardinality(Range(D')) <= Cardinality(Range(D))
          /\ Cardinality(Range(D')) <= room_counter'
          /\ room_counter' = room_counter]_vars

\* An accepted step has emptied a room: the rooms in use are a proper subset
\* of those in use before the step.
C20_Witness ==
    /\ pc = "seqVND"
    /\ last_step.accepted
    /\ Range(D) \subseteq Range(last_step.D)
    /\ Range(D) # Range(last_step.D)
    /\ Cardinality(Range(D)) < room_counter
====
